---- MODULE Spec2Model ----
(***************************************************************************)
(* A model of three parts of GoatDB:                                       *)
(*   - the authorization matcher of SchemaManager                          *)
(*     (src/cfds/base/schema-manager.ts: registerAuthRule,                 *)
(*     authRuleForRepo, kBuiltinAuthRules),                                *)
(*   - the schema registry of SchemaManager (registerSchema, get),         *)
(*   - the sync message builder (src/unnamed/part_001: SyncMessage.build,  *)
(*     SyncMessage.buildAsync) and the exchange of two peers built on it.  *)
(*                                                                         *)
(* A path string is a record [abs, parts]: abs says whether the string     *)
(* starts with "/", parts are its components.  "/sys/users/bob" is         *)
(* [abs |-> TRUE, parts |-> <<"sys", "users", "bob">>].                    *)
(***************************************************************************)
EXTENDS Integers, Sequences, FiniteSets, TLC

VARIABLES
  authRules,    \* SchemaManager._authRules: sequence of [rulePath, rule]
  lastIndex,    \* RegExp.lastIndex of every RegExp object
  authHist,     \* what lastIndex was when the last authRuleForRepo was called
  authRes,      \* the last call made on the matcher and what it returned
  authDecision, \* the last evaluation of a built-in rule
  schemas,      \* SchemaManager._schemas: ns -> sequence of schemas
  schemaRes,    \* the last call made on the registry and what it returned
  buildIn,      \* the arguments of the last SyncMessage.build call
  buildOut,     \* the message that call returned
  async,        \* the SyncMessage.buildAsync call in progress
  coll,         \* peer -> the set of commit ids the peer holds
  peerFilter,   \* peer -> the filter last received from the other peer
  net,          \* the message in flight between the two peers
  upg,          \* the last SchemaManager.upgrade call and what it returned
  msgIn,        \* the SyncMessage handed to serialize
  wire,         \* the encoded message handed to the decoders
  decoded,      \* what deserialize or decodeAsync produced from it
  adec          \* the SyncMessage.decodeAsync call in progress

vars == <<authRules, lastIndex, authHist, authRes, authDecision, schemas,
          schemaRes,
          buildIn, buildOut, async, coll, peerFilter, net,
          upg, msgIn, wire, decoded, adec>>

authVars == <<authRules, lastIndex, authHist, authRes, authDecision>>
schemaVars == <<schemas, schemaRes>>
buildVars == <<buildIn, buildOut, async>>
syncVars == <<coll, peerFilter, net>>
upgradeVars == <<upg>>
wireVars == <<msgIn, wire, decoded, adec>>

(***************************************************************************)
(* Bounds of the model.                                                    *)
(***************************************************************************)
\* the longest list of user rules the model registers
MaxRules == 3
\* schema versions run from 0 to MaxVersion
MaxVersion == 2
\* the commit ids passed to build are 1 .. NumIds
NumIds == 3
\* the commit ids of the two peers' collections are 1 .. NumCommits
NumCommits == 2

(***************************************************************************)
(* Paths.                                                                  *)
(***************************************************************************)
Path(abs, parts) == [abs |-> abs, parts |-> parts]

Min(a, b) == IF a < b THEN a ELSE b

\* normalize(path): the path with a leading slash
normalizePath(p) == Path(TRUE, p.parts)

\* the repository id of a path: its first two components, normalized
itemPathGetRepoId(p) ==
  normalizePath(Path(p.abs, SubSeq(p.parts, 1, Min(2, Len(p.parts)))))

\* the path strings the model passes to the matcher
PathStrings ==
  { Path(TRUE, <<"sys", "users">>),
    Path(TRUE, <<"sys", "users", "bob">>),
    Path(FALSE, <<"sys", "users">>),
    Path(TRUE, <<"sys", "sessions">>),
    Path(TRUE, <<"sys", "stats", "k">>),
    Path(TRUE, <<"sys", "foo">>),
    Path(TRUE, <<"sys", "foo", "k">>),
    Path(TRUE, <<"data", "notes">>),
    Path(TRUE, <<"data", "notes", "k">>),
    Path(FALSE, <<"data", "notes">>) }

(***************************************************************************)
(* RegExp objects.  An object has an identity (its id), a pattern and the  *)
(* global flag.  Pattern c stands for /[/]c[/]\S*/ : it matches a string   *)
(* that holds "/c/", and the match runs to the end of the string.          *)
(* Positions are counted in components: position k is the slash before     *)
(* component k + 1.                                                        *)
(***************************************************************************)
\* the RegExp of the built-in catch-all rule, /[/]sys[/]\S*/g
kSysRegExpId == 0

RegExpIds == 0 .. 3

RegExpOf(id) ==
  CASE id = 0 -> [pat |-> "sys", global |-> TRUE]
    [] id = 1 -> [pat |-> "sys", global |-> TRUE]
    [] id = 2 -> [pat |-> "data", global |-> FALSE]
    [] OTHER  -> [pat |-> "data", global |-> TRUE]

UserRegExpIds == RegExpIds \ {kSysRegExpId}

\* the component indexes at which the pattern matches, searching from `from`
MatchesAt(pat, p, from) ==
  { i \in 1 .. Len(p.parts) :
      /\ i - 1 >= from
      /\ p.parts[i] = pat
      /\ (i > 1 \/ p.abs)
      /\ i < Len(p.parts) }

\* RegExp.prototype.test: [ok, lastIndex]
RegExpTest(id, p, li) ==
  LET re == RegExpOf(id)
      from == IF re.global THEN li ELSE 0
      ok == MatchesAt(re.pat, p, from) # {}
  IN  [ok |-> ok,
       lastIndex |-> IF ~re.global THEN li
                     ELSE IF ok THEN Len(p.parts) ELSE 0]

(***************************************************************************)
(* Rule paths: a string or a RegExp object, as one record shape.           *)
(***************************************************************************)
StrPath(p) == [kind |-> "str", abs |-> p.abs, parts |-> p.parts, re |-> 0]
RePath(id) == [kind |-> "re", abs |-> TRUE, parts |-> <<>>, re |-> id]
AsPath(rp) == Path(rp.abs, rp.parts)

RulePaths == {StrPath(p) : p \in PathStrings} \cup {RePath(i) : i \in UserRegExpIds}

UserRules == {"userRule1", "userRule2"}
BuiltinRules == {"sysUsers", "sysSessions", "sysStats", "sysCatchAll"}
NoRule == "undefined"

Owners == {"root", "alice", "bob"}
ItemKeys == {"alice", "bob"}
AuthOps == {"read", "write"}

(***************************************************************************)
(* kBuiltinAuthRules                                                       *)
(***************************************************************************)
kBuiltinAuthRules ==
  << [rulePath |-> StrPath(Path(TRUE, <<"sys", "users">>)), rule |-> "sysUsers"],
     [rulePath |-> StrPath(Path(TRUE, <<"sys", "sessions">>)), rule |-> "sysSessions"],
     [rulePath |-> StrPath(Path(TRUE, <<"sys", "stats">>)), rule |-> "sysStats"],
     [rulePath |-> RePath(kSysRegExpId), rule |-> "sysCatchAll"] >>

\* the rule of /sys/users without the owner === itemKey branch
SysUsersRuleNoOwner(owner, itemKey, op) ==
  IF owner = "root" THEN TRUE ELSE op = "read"

SysUsersRule(owner, itemKey, op) ==
  IF owner = "root" THEN TRUE
  ELSE IF owner = itemKey THEN TRUE
  ELSE op = "read"

SysSessionsRule(owner, itemKey, op) ==
  IF owner = "root" THEN TRUE ELSE op = "read"

SysStatsRule(owner, itemKey, op) == owner = "root"

SysCatchAllRule(owner, itemKey, op) == owner = "root"

BuiltinRule(rule, owner, itemKey, op) ==
  CASE rule = "sysUsers" -> SysUsersRule(owner, itemKey, op)
    [] rule = "sysSessions" -> SysSessionsRule(owner, itemKey, op)
    [] rule = "sysStats" -> SysStatsRule(owner, itemKey, op)
    [] OTHER -> SysCatchAllRule(owner, itemKey, op)

(***************************************************************************)
(* registerAuthRule                                                        *)
(***************************************************************************)
\* the assert of registerAuthRule holds for every registered path
RegisterAssertHolds(rules, path) ==
  \A i \in 1 .. Len(rules) : rules[i].rulePath = path

\* the path registerAuthRule stores for its argument
RegisteredPath(rp) ==
  IF rp.kind = "str" THEN StrPath(itemPathGetRepoId(AsPath(rp))) ELSE rp

\* [threw, rules]: the outcome of registerAuthRule(rp, rule)
registerAuthRule(rules, rp, rule) ==
  LET path == RegisteredPath(rp)
  IN  IF RegisterAssertHolds(rules, path)
      THEN [threw |-> FALSE,
            rules |-> Append(rules, [rulePath |-> path, rule |-> rule])]
      ELSE [threw |-> TRUE, rules |-> rules]

(***************************************************************************)
(* authRuleForRepo                                                         *)
(***************************************************************************)
\* the first built-in rule whose rulePath === repoId, from index i on
RECURSIVE BuiltinLookup(_, _)
BuiltinLookup(repoId, i) ==
  IF i > Len(kBuiltinAuthRules) THEN NoRule
  ELSE IF kBuiltinAuthRules[i].rulePath = StrPath(repoId)
       THEN kBuiltinAuthRules[i].rule
       ELSE BuiltinLookup(repoId, i + 1)

\* the scan of the user rules without the reset of lastIndex before a test
RECURSIVE UserLookupNoReset(_, _, _, _)
UserLookupNoReset(rules, inputPath, li, i) ==
  IF i > Len(rules) THEN [rule |-> NoRule, lastIndex |-> li]
  ELSE LET rp == rules[i].rulePath
       IN  IF rp.kind = "str"
           THEN IF normalizePath(AsPath(rp)) = itemPathGetRepoId(inputPath)
                THEN [rule |-> rules[i].rule, lastIndex |-> li]
                ELSE UserLookupNoReset(rules, inputPath, li, i + 1)
           ELSE LET t == RegExpTest(rp.re, inputPath, li[rp.re])
                    li2 == [li EXCEPT ![rp.re] = t.lastIndex]
                IN  IF t.ok
                    THEN [rule |-> rules[i].rule, lastIndex |-> li2]
                    ELSE UserLookupNoReset(rules, inputPath, li2, i + 1)

\* the scan of the user rules from index i on: [rule, lastIndex]
RECURSIVE UserLookup(_, _, _, _)
UserLookup(rules, inputPath, li, i) ==
  IF i > Len(rules) THEN [rule |-> NoRule, lastIndex |-> li]
  ELSE LET rp == rules[i].rulePath
       IN  IF rp.kind = "str"
           THEN IF normalizePath(AsPath(rp)) = itemPathGetRepoId(inputPath)
                THEN [rule |-> rules[i].rule, lastIndex |-> li]
                ELSE UserLookup(rules, inputPath, li, i + 1)
           ELSE LET t == RegExpTest(rp.re, inputPath, 0)
                    li2 == [li EXCEPT ![rp.re] = t.lastIndex]
                IN  IF t.ok
                    THEN [rule |-> rules[i].rule, lastIndex |-> li2]
                    ELSE UserLookup(rules, inputPath, li2, i + 1)

\* authRuleForRepo with the user rules consulted before the built-in ones
authRuleForRepoUserFirst(rules, inputPath, li) ==
  LET u == UserLookup(rules, inputPath, li, 1)
  IN  IF u.rule # NoRule THEN u
      ELSE [rule |-> BuiltinLookup(itemPathGetRepoId(inputPath), 1),
            lastIndex |-> u.lastIndex]

\* [rule, lastIndex]: the outcome of authRuleForRepo(inputPath)
authRuleForRepo(rules, inputPath, li) ==
  LET b == BuiltinLookup(itemPathGetRepoId(inputPath), 1)
  IN  IF b # NoRule THEN [rule |-> b, lastIndex |-> li]
      ELSE UserLookup(rules, inputPath, li, 1)

(***************************************************************************)
(* The matcher as a state machine.                                         *)
(***************************************************************************)
NoPath == StrPath(Path(TRUE, <<>>))

NoDecision ==
  [repo |-> NoPath, rule |-> NoRule, owner |-> "root", itemKey |-> "alice",
   op |-> "read", allow |-> FALSE]

InitAuth ==
  /\ authRules = <<>>
  /\ lastIndex = [i \in RegExpIds |-> 0]
  /\ authHist = [i \in RegExpIds |-> 0]
  /\ authRes = [op |-> "new", input |-> NoPath, rule |-> NoRule, threw |-> FALSE]
  /\ authDecision = NoDecision

RegisterAuthRule(rp, rule) ==
  LET out == registerAuthRule(authRules, rp, rule)
  IN  /\ Len(out.rules) <= MaxRules
      /\ authRules' = out.rules
      /\ authRes' = [op |-> "register", input |-> rp, rule |-> rule,
                     threw |-> out.threw]
      /\ authDecision' = NoDecision
      /\ authHist' = [i \in RegExpIds |-> 0]
      /\ UNCHANGED lastIndex

AuthRuleForRepo(inputPath) ==
  LET out == authRuleForRepo(authRules, inputPath, lastIndex)
  IN  /\ lastIndex' = out.lastIndex
      /\ authHist' = lastIndex
      /\ authRes' = [op |-> "lookup", input |-> StrPath(inputPath),
                     rule |-> out.rule, threw |-> FALSE]
      /\ authDecision' = NoDecision
      /\ UNCHANGED authRules

\* the caller evaluates the built-in rule the last lookup returned
EvalRule(owner, itemKey, op) ==
  /\ authRes.op = "lookup"
  /\ authRes.rule \in BuiltinRules
  /\ authDecision' = [repo |-> StrPath(itemPathGetRepoId(AsPath(authRes.input))),
                      rule |-> authRes.rule, owner |-> owner,
                      itemKey |-> itemKey, op |-> op,
                      allow |-> BuiltinRule(authRes.rule, owner, itemKey, op)]
  /\ UNCHANGED <<authRules, lastIndex, authHist, authRes>>

DoRegisterAuthRule ==
  /\ \E rp \in RulePaths, rule \in UserRules : RegisterAuthRule(rp, rule)
  /\ UNCHANGED <<schemaVars, buildVars, syncVars, upgradeVars, wireVars>>

DoAuthRuleForRepo ==
  /\ \E p \in PathStrings : AuthRuleForRepo(p)
  /\ UNCHANGED <<schemaVars, buildVars, syncVars, upgradeVars, wireVars>>

DoEvalRule ==
  /\ \E owner \in Owners, itemKey \in ItemKeys, op \in AuthOps :
       EvalRule(owner, itemKey, op)
  /\ UNCHANGED <<schemaVars, buildVars, syncVars, upgradeVars, wireVars>>

NextAuth ==
  \/ DoRegisterAuthRule
  \/ DoAuthRuleForRepo
  \/ DoEvalRule

(***************************************************************************)
(* The schema registry.  A schema is [ns, version, upgrade]; upgrade names *)
(* the schema's upgrade function, "none" when it has none.                 *)
(***************************************************************************)
Schema(ns, version, upgrade) ==
  [ns |-> ns, version |-> version, upgrade |-> upgrade]

\* what get returns when it finds nothing
NoSchema == Schema("undefined", 0, "none")

BuiltinNamespaces == {"Session", "User", "UserStats"}
Namespaces == BuiltinNamespaces \cup {"Note"}
\* the namespaces the application registers schemas in
AppNamespaces == {"User", "Note"}
Versions == 0 .. MaxVersion
UpgradeFns == {"none", "inc", "dbl"}

kSchemaSession == Schema("Session", 1, "none")
kSchemaUser == Schema("User", 1, "none")
kSchemaUserStats == Schema("UserStats", 1, "none")

\* an optional version argument: given says whether it was passed
VersionArg(given, v) == [given |-> given, v |-> v]
VersionArgs ==
  {VersionArg(TRUE, v) : v \in Versions} \cup {VersionArg(FALSE, 0)}

\* the truthiness of the version argument in `version ? ... : ...`
VersionTruthy(ver) == ver.given /\ ver.v # 0

\* inserts s into a sequence sorted descending by version, after its equals
RECURSIVE InsertDesc(_, _)
InsertDesc(arr, s) ==
  IF arr = <<>> THEN <<s>>
  ELSE IF arr[1].version >= s.version
       THEN <<arr[1]>> \o InsertDesc(Tail(arr), s)
       ELSE <<s>> \o arr

\* arr.sort((s1, s2) => s2.version - s1.version), a stable sort
RECURSIVE SortDesc(_)
SortDesc(arr) ==
  IF arr = <<>> THEN <<>>
  ELSE InsertDesc(SortDesc(SubSeq(arr, 1, Len(arr) - 1)), arr[Len(arr)])

\* arr.find((s) => s.version === version)
RECURSIVE FindVersion(_, _)
FindVersion(arr, version) ==
  IF arr = <<>> THEN NoSchema
  ELSE IF arr[1].version = version THEN arr[1]
       ELSE FindVersion(Tail(arr), version)

\* registerSchema without the sort after the push
registerSchemaNoSort(reg, schema) ==
  LET arr == reg[schema.ns]
  IN  IF FindVersion(arr, schema.version) = NoSchema
      THEN [reg EXCEPT ![schema.ns] = Append(arr, schema)]
      ELSE reg

\* the registry after registerSchema(schema)
registerSchema(reg, schema) ==
  LET arr == reg[schema.ns]
  IN  IF FindVersion(arr, schema.version) = NoSchema
      THEN [reg EXCEPT ![schema.ns] = SortDesc(Append(arr, schema))]
      ELSE reg

\* get(ns, version?)
get(reg, ns, ver) ==
  LET arr == reg[ns]
  IN  IF arr = <<>> THEN NoSchema
      ELSE IF VersionTruthy(ver) THEN FindVersion(arr, ver.v) ELSE arr[1]

\* the registry the constructor leaves
NewSchemas ==
  registerSchema(
    registerSchema(
      registerSchema([ns \in Namespaces |-> <<>>], kSchemaSession),
      kSchemaUser),
    kSchemaUserStats)

InitSchema ==
  /\ schemas = NewSchemas
  /\ schemaRes = [op |-> "new", ns |-> "User", ver |-> VersionArg(FALSE, 0),
                  result |-> NoSchema]

RegisterSchema(schema) ==
  /\ schemas' = registerSchema(schemas, schema)
  /\ schemaRes' = [op |-> "register", ns |-> schema.ns,
                   ver |-> VersionArg(TRUE, schema.version), result |-> NoSchema]

Get(ns, ver) ==
  /\ schemaRes' = [op |-> "get", ns |-> ns, ver |-> ver,
                   result |-> get(schemas, ns, ver)]
  /\ UNCHANGED schemas

DoRegisterSchema ==
  /\ \E ns \in AppNamespaces, v \in Versions, u \in UpgradeFns :
       RegisterSchema(Schema(ns, v, u))
  /\ UNCHANGED <<authVars, buildVars, syncVars, upgradeVars, wireVars>>

DoGet ==
  /\ \E ns \in Namespaces, ver \in VersionArgs : Get(ns, ver)
  /\ UNCHANGED <<authVars, buildVars, syncVars, upgradeVars, wireVars>>

NextSchema ==
  \/ DoRegisterSchema
  \/ DoGet

(***************************************************************************)
(* Bloom filters.  A filter is [size, added, fp]: added holds the ids that *)
(* were added, fp the ids its hash functions answer true for without their *)
(* having been added.  The hash functions are drawn at random when the     *)
(* filter is constructed, so fp is an input of the construction.           *)
(***************************************************************************)
Ids == 1 .. NumIds

Max(a, b) == IF a > b THEN a ELSE b

NewBloomFilter(size, fp) == [size |-> size, added |-> {}, fp |-> fp]
FilterAdd(f, id) == [f EXCEPT !.added = @ \cup {id}, !.fp = @ \ {id}]
FilterHas(f, id) == id \in f.added \/ id \in f.fp

\* an optional filter argument: present says whether it was passed
NoFilter == [present |-> FALSE, f |-> NewBloomFilter(1, {})]
SomeFilter(f) == [present |-> TRUE, f |-> f]

(***************************************************************************)
(* SyncMessage.build.  A commit stands for its id; the iterator `values`   *)
(* is the sequence of ids it yields.  The false-positive rate computed     *)
(* from expectedSyncCycles and lowAccuracy is a real number that only      *)
(* sizes the filter; the model keeps the filter's answers (fp) instead.    *)
(***************************************************************************)
Message(filter, size, values) ==
  [filter |-> filter, size |-> size, values |-> values]

NoMessage == Message(NewBloomFilter(1, {}), 0, <<>>)

numberOfEntries(localSize, peerSize) == Max(1, Max(localSize, peerSize))

\* the body of the scan loop with the test of the peer filter inverted
ScanItemInverted(st, peerF, id) ==
  [filter |-> FilterAdd(st.filter, id),
   localSize |-> st.localSize + 1,
   missing |-> IF FilterHas(peerF, id)
               THEN Append(st.missing, id) ELSE st.missing]

\* the body of the scan loop with the missing value put first
ScanItemPrepend(st, peerF, id) ==
  [filter |-> FilterAdd(st.filter, id),
   localSize |-> st.localSize + 1,
   missing |-> IF ~FilterHas(peerF, id)
               THEN <<id>> \o st.missing ELSE st.missing]

\* the body of the scan loop without the count of the item
ScanItemNoCount(st, peerF, id) ==
  [filter |-> FilterAdd(st.filter, id),
   localSize |-> st.localSize,
   missing |-> IF ~FilterHas(peerF, id)
               THEN Append(st.missing, id) ELSE st.missing]

\* the body of the scan loop, for one (id, v) of the iterator
ScanItem(st, peerF, id) ==
  [filter |-> FilterAdd(st.filter, id),
   localSize |-> st.localSize + 1,
   missing |-> IF ~FilterHas(peerF, id)
               THEN Append(st.missing, id) ELSE st.missing]

\* the scan loop from item i on
RECURSIVE Scan(_, _, _, _)
Scan(st, peerF, values, i) ==
  IF i > Len(values) THEN st
  ELSE Scan(ScanItem(st, peerF, values[i]), peerF, values, i + 1)

\* the locals of build before the scan: [filter, localSize, missing]
BuildLocals(localSize, peerSize, fp) ==
  [filter |-> NewBloomFilter(numberOfEntries(localSize, peerSize), fp),
   localSize |-> localSize,
   missing |-> <<>>]

\* the test that guards the scan
ScanGuard(peer, includeMissing) == peer.present /\ includeMissing

\* the message build returns
build(peer, values, localSize, peerSize, includeMissing, fp) ==
  LET st0 == BuildLocals(localSize, peerSize, fp)
      st == IF ScanGuard(peer, includeMissing)
            THEN Scan([st0 EXCEPT !.localSize = 0], peer.f, values, 1)
            ELSE st0
  IN  Message(st.filter, st.localSize, st.missing)

(***************************************************************************)
(* build and buildAsync as operations.  buildAsync runs the same loop body *)
(* through CoroutineScheduler.forEach, which may suspend between items.    *)
(***************************************************************************)
\* the sequences of distinct ids: what an iterator over a store yields
IdSeqs ==
  UNION { { s \in [1 .. n -> Ids] : \A i, j \in 1 .. n : s[i] = s[j] => i = j } :
          n \in 0 .. NumIds }

\* the peer filters passed to build: absent, or answering true on a set of ids
PeerFilterArgs ==
  {NoFilter} \cup
  { SomeFilter([NewBloomFilter(1, {}) EXCEPT !.added = S]) : S \in SUBSET Ids }

BuildArgs(peer, values, localSize, peerSize, includeMissing, fp) ==
  [peer |-> peer, values |-> values, localSize |-> localSize,
   peerSize |-> peerSize, includeMissing |-> includeMissing, fp |-> fp]

NoBuildArgs == BuildArgs(NoFilter, <<>>, 0, 0, TRUE, {})

AllBuildArgs ==
  { BuildArgs(peer, values, localSize, peerSize, includeMissing, fp) :
      peer \in PeerFilterArgs, values \in IdSeqs, localSize \in 0 .. NumIds,
      peerSize \in {0, NumIds + 1}, includeMissing \in BOOLEAN,
      fp \in SUBSET Ids }

AsyncIdle == [pc |-> "idle", i |-> 0, st |-> BuildLocals(0, 0, {})]

\* no call of build or buildAsync has been made
InitBuild ==
  /\ buildIn = NoBuildArgs
  /\ buildOut = [kind |-> "none", msg |-> NoMessage]
  /\ async = AsyncIdle

\* the caller calls build with the arguments a
Build(a) ==
  /\ async.pc = "idle"
  /\ buildOut.kind = "none"
  /\ buildOut' = [kind |-> "build",
                  msg |-> build(a.peer, a.values, a.localSize, a.peerSize,
                                a.includeMissing, a.fp)]
  /\ UNCHANGED <<buildIn, async>>

\* buildAsync up to the call of forEach
BuildAsyncStart(a) ==
  /\ async.pc = "idle"
  /\ buildOut.kind = "none"
  /\ UNCHANGED <<buildIn, buildOut>>
  /\ LET st0 == BuildLocals(a.localSize, a.peerSize, a.fp)
     IN  async' = IF ScanGuard(a.peer, a.includeMissing)
                  THEN [pc |-> "scan", i |-> 1, st |-> [st0 EXCEPT !.localSize = 0]]
                  ELSE [pc |-> "return", i |-> 0, st |-> st0]

\* the scheduler runs the callback on the next item
BuildAsyncItem ==
  /\ async.pc = "scan"
  /\ async.i <= Len(buildIn.values)
  /\ async' = [async EXCEPT
                 !.st = ScanItem(async.st, buildIn.peer.f, buildIn.values[async.i]),
                 !.i = @ + 1]
  /\ UNCHANGED <<buildIn, buildOut>>

\* forEach has processed the whole iterator
BuildAsyncScanned ==
  /\ async.pc = "scan"
  /\ async.i > Len(buildIn.values)
  /\ async' = [async EXCEPT !.pc = "return"]
  /\ UNCHANGED <<buildIn, buildOut>>

\* buildAsync constructs the message and resolves
BuildAsyncReturn ==
  /\ async.pc = "return"
  /\ buildOut' = [kind |-> "buildAsync",
                  msg |-> Message(async.st.filter, async.st.localSize,
                                  async.st.missing)]
  /\ async' = AsyncIdle
  /\ UNCHANGED buildIn

DoBuild ==
  /\ Build(buildIn)
  /\ UNCHANGED <<authVars, schemaVars, syncVars, upgradeVars, wireVars>>

DoBuildAsyncStart ==
  /\ BuildAsyncStart(buildIn)
  /\ UNCHANGED <<authVars, schemaVars, syncVars, upgradeVars, wireVars>>

DoBuildAsyncItem ==
  /\ BuildAsyncItem
  /\ UNCHANGED <<authVars, schemaVars, syncVars, upgradeVars, wireVars>>

DoBuildAsyncScanned ==
  /\ BuildAsyncScanned
  /\ UNCHANGED <<authVars, schemaVars, syncVars, upgradeVars, wireVars>>

DoBuildAsyncReturn ==
  /\ BuildAsyncReturn
  /\ UNCHANGED <<authVars, schemaVars, syncVars, upgradeVars, wireVars>>

NextBuild ==
  \/ DoBuild
  \/ DoBuildAsyncStart
  \/ DoBuildAsyncItem
  \/ DoBuildAsyncScanned
  \/ DoBuildAsyncReturn

(***************************************************************************)
(* The exchange of two peers.  The peer whose turn it is builds a message  *)
(* against the filter it last received; the other peer persists the values *)
(* by commit id, keeps the filter and the size for its next build, and     *)
(* answers.                                                                *)
(***************************************************************************)
Peers == {1, 2}
Other(p) == 3 - p
CommitIds == 1 .. NumCommits

\* the ids of a collection in the order the store's iterator yields them
RECURSIVE Scanned(_)
Scanned(S) ==
  IF S = {} THEN <<>>
  ELSE LET m == CHOOSE x \in S : \A y \in S : x <= y
       IN  <<m>> \o Scanned(S \ {m})

Range(seq) == {seq[i] : i \in 1 .. Len(seq)}

InitSync ==
  /\ coll \in [Peers -> SUBSET CommitIds]
  /\ peerFilter = [p \in Peers |-> [filter |-> NoFilter, size |-> 0]]
  /\ net = [to |-> 0, next |-> 1, msg |-> NoMessage]

\* peer p builds its next message; fp is what its fresh filter's hashes give
Send(p, fp) ==
  /\ net.to = 0
  /\ net.next = p
  /\ net' = [to |-> Other(p), next |-> Other(p),
             msg |-> build(peerFilter[p].filter, Scanned(coll[p]),
                           Cardinality(coll[p]), peerFilter[p].size, TRUE, fp)]
  /\ UNCHANGED <<coll, peerFilter>>

\* peer q processes the message in flight
Receive(q) ==
  /\ net.to = q
  /\ coll' = [coll EXCEPT ![q] = @ \cup Range(net.msg.values)]
  /\ peerFilter' = [peerFilter EXCEPT
                      ![q] = [filter |-> SomeFilter(net.msg.filter),
                              size |-> net.msg.size]]
  /\ net' = [to |-> 0, next |-> q, msg |-> NoMessage]

DoSend ==
  /\ \E p \in Peers, fp \in SUBSET CommitIds : Send(p, fp)
  /\ UNCHANGED <<authVars, schemaVars, buildVars, upgradeVars, wireVars>>

DoReceive ==
  /\ \E q \in Peers : Receive(q)
  /\ UNCHANGED <<authVars, schemaVars, buildVars, upgradeVars, wireVars>>

\* peer p builds with a filter that does not answer true for id by chance
SendWithout(p, id) ==
  /\ \E fp \in SUBSET (CommitIds \ {id}) : Send(p, fp)
  /\ UNCHANGED <<authVars, schemaVars, buildVars, upgradeVars, wireVars>>

NextSync ==
  \/ DoSend
  \/ DoReceive

(***************************************************************************)
(* Schema markers: encode and decode.  A marker string is [null, ns, ver]: *)
(* the literal "null", or the namespace, a slash and the decimal digits of *)
(* the version.                                                            *)
(***************************************************************************)
\* the ns of the null schema
NullNs == "null"

kNullSchema == Schema(NullNs, 0, "none")

\* `${n}`: the decimal digits of a non-negative integer
RECURSIVE ToDigits(_)
ToDigits(n) ==
  IF n < 10 THEN <<n>> ELSE Append(ToDigits(n \div 10), n % 10)

\* parseInt of a sequence of decimal digits
RECURSIVE ParseInt(_)
ParseInt(digits) ==
  IF Len(digits) = 1 THEN digits[1]
  ELSE 10 * ParseInt(SubSeq(digits, 1, Len(digits) - 1)) + digits[Len(digits)]

\* encode(schema)
encode(schema) ==
  IF schema.ns = NullNs
  THEN [null |-> TRUE, ns |-> NullNs, ver |-> <<>>]
  ELSE [null |-> FALSE, ns |-> schema.ns, ver |-> ToDigits(schema.version)]

\* decode(str)
decode(reg, str) ==
  IF str.null THEN kNullSchema
  ELSE get(reg, str.ns, VersionArg(TRUE, ParseInt(str.ver)))

\* the schemas registered in the manager
RegisteredSchemas ==
  UNION { {schemas[ns][i] : i \in 1 .. Len(schemas[ns])} : ns \in Namespaces }

\* the caller encodes a schema and decodes the marker
RoundTrip(schema) ==
  /\ schemaRes' = [op |-> "decode", ns |-> schema.ns,
                   ver |-> VersionArg(TRUE, schema.version),
                   result |-> decode(schemas, encode(schema))]
  /\ UNCHANGED schemas

DoRoundTrip ==
  /\ \E schema \in RegisteredSchemas \cup {kNullSchema} : RoundTrip(schema)
  /\ UNCHANGED <<authVars, buildVars, syncVars, upgradeVars, wireVars>>

NextCodec ==
  \/ DoRegisterSchema
  \/ DoRoundTrip

(***************************************************************************)
(* SchemaManager.upgrade.  Data objects live in a heap, a sequence of      *)
(* values indexed by reference; the caller's object is reference 1.  The   *)
(* upgrade function "inc" changes its argument in place and returns it,    *)
(* "dbl" returns a new object computed from its argument and the version   *)
(* of the schema it is handed.                                             *)
(***************************************************************************)
\* coreValueClone(data): a copy of the object in a new reference
coreValueClone(heap, ref) ==
  [heap |-> Append(heap, heap[ref]), ref |-> Len(heap) + 1]

\* schema.upgrade(upgradedData, currentSchema)
ApplyUpgrade(fn, heap, ref, fromSchema) ==
  IF fn = "inc"
  THEN [heap |-> [heap EXCEPT ![ref] = @ + 1], ref |-> ref]
  ELSE [heap |-> Append(heap, 2 * heap[ref] + fromSchema.version),
        ref |-> Len(heap) + 1]

\* an optional schema argument: given says whether it was passed
SchemaArg(given, schema) == [given |-> given, schema |-> schema]
NoSchemaArg == SchemaArg(FALSE, NoSchema)

\* what upgrade returns: undefined, or [data, schema]; heap is the heap after
UpgradeResult(defined, ref, schema, heap) ==
  [defined |-> defined, ref |-> ref, schema |-> schema, heap |-> heap]

\* the start of the walk with upgradedData aliasing the caller's data
UpgradeStartNoClone(heap, data, dataSchema) ==
  [failed |-> FALSE, heap |-> heap, ref |-> data, schema |-> dataSchema]

\* the locals of upgrade before the loop: currentSchema and upgradedData
UpgradeStart(heap, data, dataSchema) ==
  LET c == coreValueClone(heap, data)
  IN  [failed |-> FALSE, heap |-> c.heap, ref |-> c.ref, schema |-> dataSchema]

\* the loop body with a missing version passed over
UpgradeStepSkip(reg, ns, st, i) ==
  LET schema == get(reg, ns, VersionArg(TRUE, i))
  IN  IF schema = NoSchema THEN st
      ELSE IF schema.upgrade # "none"
           THEN LET a == ApplyUpgrade(schema.upgrade, st.heap, st.ref, st.schema)
                IN  [failed |-> FALSE, heap |-> a.heap, ref |-> a.ref,
                     schema |-> schema]
           ELSE [st EXCEPT !.schema = schema]

\* the loop body for version i
UpgradeStep(reg, ns, st, i) ==
  LET schema == get(reg, ns, VersionArg(TRUE, i))
  IN  IF schema = NoSchema THEN [st EXCEPT !.failed = TRUE]
      ELSE IF schema.upgrade # "none"
           THEN LET a == ApplyUpgrade(schema.upgrade, st.heap, st.ref, st.schema)
                IN  [failed |-> FALSE, heap |-> a.heap, ref |-> a.ref,
                     schema |-> schema]
           ELSE [st EXCEPT !.schema = schema]

\* the loop from version i to the version of latest
RECURSIVE UpgradeLoop(_, _, _, _, _)
UpgradeLoop(reg, ns, latestVersion, st, i) ==
  IF st.failed \/ i > latestVersion THEN st
  ELSE UpgradeLoop(reg, ns, latestVersion, UpgradeStep(reg, ns, st, i), i + 1)

\* upgrade(data, dataSchema, targetSchema?)
upgrade(reg, heap, data, dataSchema, target) ==
  IF (~target.given \/ target.schema.ns = NullNs) /\ dataSchema.ns = NullNs
  THEN UpgradeResult(TRUE, data, kNullSchema, heap)
  ELSE LET ns == IF target.given /\ target.schema.ns # NullNs
                 THEN target.schema.ns ELSE dataSchema.ns
           latest == get(reg, ns,
                         IF target.given
                         THEN VersionArg(TRUE, target.schema.version)
                         ELSE VersionArg(FALSE, 0))
       IN  IF latest = NoSchema \/ latest.version = dataSchema.version
           THEN UpgradeResult(TRUE, data, dataSchema, heap)
           ELSE LET st == UpgradeLoop(reg, ns, latest.version,
                                      UpgradeStart(heap, data, dataSchema),
                                      dataSchema.version + 1)
                IN  UpgradeResult(~st.failed, st.ref, st.schema, st.heap)

\* the values of the caller's data object
DataValues == {1, 2}

\* the namespace whose chain of versions the upgrades walk
kChainNs == "Note"

\* the greatest version of the chain
MaxChain == 3

\* the schemas passed as dataSchema and as targetSchema
SchemaArgs ==
  {Schema(kChainNs, v, "none") : v \in 0 .. MaxChain} \cup {kNullSchema}

NoUpgrade ==
  [op |-> "none", data0 |-> 1, dataSchema |-> NoSchema, target |-> NoSchemaArg,
   out |-> UpgradeResult(FALSE, 1, NoSchema, <<1>>)]

InitUpgrade == upg = NoUpgrade

\* the caller upgrades an object holding data0
Upgrade(data0, dataSchema, target) ==
  /\ upg.op = "none"
  /\ upg' = [op |-> "upgrade", data0 |-> data0, dataSchema |-> dataSchema,
             target |-> target,
             out |-> upgrade(schemas, <<data0>>, 1, dataSchema, target)]
  /\ UNCHANGED schemaVars

\* the application registers the versions of the chain before it upgrades
DoRegisterChain ==
  /\ upg.op = "none"
  /\ \E v \in 0 .. MaxChain, u \in UpgradeFns :
       RegisterSchema(Schema(kChainNs, v, u))
  /\ UNCHANGED <<authVars, buildVars, syncVars, upgradeVars, wireVars>>

DoUpgrade ==
  /\ \E data0 \in DataValues, dataSchema \in SchemaArgs,
        target \in {NoSchemaArg} \cup {SchemaArg(TRUE, t) : t \in SchemaArgs} :
       Upgrade(data0, dataSchema, target)
  /\ UNCHANGED <<authVars, buildVars, syncVars, wireVars>>

NextUpgrade ==
  \/ DoRegisterChain
  \/ DoUpgrade

\* the application registers a built-in (ns, version) again
DoRegisterBuiltin ==
  /\ \E s \in {kSchemaSession, kSchemaUser, kSchemaUserStats}, u \in UpgradeFns :
       RegisterSchema(Schema(s.ns, s.version, u))
  /\ UNCHANGED <<authVars, buildVars, syncVars, upgradeVars, wireVars>>

\* get(ns) without a version
DoGetLatest ==
  /\ \E ns \in Namespaces : Get(ns, VersionArg(FALSE, 0))
  /\ UNCHANGED <<authVars, buildVars, syncVars, upgradeVars, wireVars>>

NextRegistry ==
  \/ DoRegisterChain
  \/ DoRegisterBuiltin
  \/ DoGetLatest

(***************************************************************************)
(* SyncMessage: construction, serialize, deserialize and decodeAsync.  An  *)
(* encoded message is a record of its keys: "ver", "f", "s" and the        *)
(* optional "c" and "ad".  An encoded commit is [id, ok]: ok says whether  *)
(* Commit.fromJS can decode the entry or throws.                           *)
(***************************************************************************)
\* the largest number of entries of an encoded commit array
MaxEncoded == 2

\* getGoatConfig().version
kLocalBuildVersion == 1

\* an optional list: present says whether it was passed, or is on the wire
NoList == [present |-> FALSE, v |-> <<>>]
SomeList(v) == [present |-> TRUE, v |-> v]

\* the configuration handed to the constructor of SyncMessage
SyncMessageConfig(filter, size, values, accessDenied, buildVersion) ==
  [filter |-> filter, size |-> size, values |-> values,
   accessDenied |-> accessDenied, buildVersion |-> buildVersion]

\* new SyncMessage(config): the fields of the message
SyncMessage(config) ==
  [filter |-> config.filter,
   size |-> config.size,
   values |-> IF config.values.present THEN config.values.v ELSE <<>>,
   accessDenied |-> IF config.accessDenied.present
                    THEN SomeList(config.accessDenied.v) ELSE NoList,
   buildVersion |-> IF VersionTruthy(config.buildVersion)
                    THEN config.buildVersion.v ELSE kLocalBuildVersion]

\* the accessDenied getter
accessDenied(msg) ==
  IF msg.accessDenied.present THEN msg.accessDenied.v ELSE <<>>

\* Commit.toJS and the entries Commit.fromJS decodes
toJS(c) == [id |-> c, ok |-> TRUE]
fromJS(entry) == entry.id

\* BloomFilter.serialize and BloomFilter.deserialize: the encoding keeps the
\* size and the ids the filter answers true on
EncodeFilter(f) == [n |-> f.size, bits |-> f.added \cup f.fp]
DecodeFilter(e) == [size |-> e.n, added |-> {}, fp |-> e.bits]

Encoded(ver, f, s, c, ad) == [ver |-> ver, f |-> f, s |-> s, c |-> c, ad |-> ad]

\* serialize without the "ad" key
serializeNoDenied(msg) ==
  Encoded(msg.buildVersion, EncodeFilter(msg.filter), msg.size,
          SomeList([i \in 1 .. Len(msg.values) |-> toJS(msg.values[i])]),
          NoList)

\* serialize(encoder)
serialize(msg) ==
  Encoded(msg.buildVersion, EncodeFilter(msg.filter), msg.size,
          SomeList([i \in 1 .. Len(msg.values) |-> toJS(msg.values[i])]),
          SomeList(accessDenied(msg)))

\* decoder.get(key, []) of an optional array
GetOr(opt) == IF opt.present THEN opt.v ELSE <<>>

\* the loop body with a failure throwing away the commits decoded so far
DeserializeItemReset(values, entry) ==
  IF entry.ok THEN Append(values, fromJS(entry)) ELSE <<>>

\* the body of the loop of deserialize: try { values.push(...) } catch {}
DeserializeItem(values, entry) ==
  IF entry.ok THEN Append(values, fromJS(entry)) ELSE values

\* the loop of deserialize from entry i on
RECURSIVE DeserializeLoop(_, _, _)
DeserializeLoop(values, commits, i) ==
  IF i > Len(commits) THEN values
  ELSE DeserializeLoop(DeserializeItem(values, commits[i]), commits, i + 1)

\* deserialize(decoder): the fields of the message afterwards
deserialize(enc) ==
  [buildVersion |-> enc.ver,
   filter |-> DecodeFilter(enc.f),
   size |-> enc.s,
   accessDenied |-> SomeList(GetOr(enc.ad)),
   values |-> DeserializeLoop(<<>>, GetOr(enc.c), 1)]

\* the configuration decodeAsync hands to the constructor
DecodeAsyncConfig(enc, values) ==
  SyncMessageConfig(DecodeFilter(enc.f), enc.s, values,
                    SomeList(GetOr(enc.ad)), VersionArg(TRUE, enc.ver))

\* the test that ends the map of decodeAsync one entry early
MapDoneEarly(commits, i) == i >= Len(commits)

\* CoroutineScheduler.map has mapped every entry
MapDone(commits, i) == i > Len(commits)

\* the values of the fields of the messages
\* the denial lists: absent, empty or of one key
OptDeniedLists == {NoList, SomeList(<<>>), SomeList(<<"k1">>)}
BuildVersions == {0, 2}
WireSizes == {0, 2}

\* the sequences of distinct commits
CommitSeqs ==
  UNION { { q \in [1 .. n -> CommitIds] : \A i, j \in 1 .. n : q[i] = q[j] => i = j } :
          n \in 0 .. NumCommits }

\* the messages a caller constructs
Messages ==
  { SyncMessage(SyncMessageConfig(f, n, v, ad, VersionArg(TRUE, ver))) :
      f \in {[NewBloomFilter(1, fp) EXCEPT !.added = S] :
              S \in SUBSET CommitIds, fp \in SUBSET CommitIds},
      n \in WireSizes,
      v \in {NoList} \cup {SomeList(q) : q \in CommitSeqs},
      ad \in OptDeniedLists, ver \in BuildVersions }

\* the encoded messages a peer may send
EncodedMessages ==
  { Encoded(ver, EncodeFilter(f), n, c, ad) :
      ver \in BuildVersions,
      f \in {NewBloomFilter(1, fp) : fp \in SUBSET CommitIds},
      n \in WireSizes,
      c \in {NoList} \cup
            {SomeList(q) : q \in UNION {[1 .. k -> [id : CommitIds, ok : BOOLEAN]] : k \in 0 .. MaxEncoded}},
      ad \in OptDeniedLists }

NoSyncMessage ==
  SyncMessage(SyncMessageConfig(NewBloomFilter(1, {}), 0, NoList, NoList,
                                VersionArg(FALSE, 0)))
NoWire == [from |-> "none", enc |-> serialize(NoSyncMessage)]
NoDecoded == [kind |-> "none", msg |-> NoSyncMessage]
DecodeIdle == [pc |-> "idle", i |-> 0, values |-> <<>>, msg |-> NoSyncMessage]

\* no message has been serialized or decoded
IdleWire ==
  /\ msgIn = NoSyncMessage
  /\ wire = NoWire
  /\ decoded = NoDecoded
  /\ adec = DecodeIdle

\* the caller serializes the message msgIn
Serialize ==
  /\ wire.from = "none"
  /\ wire' = [from |-> "serialize", enc |-> serialize(msgIn)]
  /\ UNCHANGED <<msgIn, decoded, adec>>
  /\ UNCHANGED <<authVars, schemaVars, buildVars, syncVars, upgradeVars>>

\* a message is constructed from the decoder of the encoded message
Deserialize ==
  /\ wire.from # "none"
  /\ decoded.kind = "none"
  /\ decoded' = [kind |-> "deserialize", msg |-> deserialize(wire.enc)]
  /\ UNCHANGED <<msgIn, wire, adec>>
  /\ UNCHANGED <<authVars, schemaVars, buildVars, syncVars, upgradeVars>>

\* decodeAsync up to the await: without "c" it constructs the message
DecodeAsyncStart ==
  /\ wire.from # "none"
  /\ adec.pc = "idle"
  /\ adec' = IF wire.enc.c.present
             THEN [adec EXCEPT !.pc = "map", !.i = 1]
             ELSE [adec EXCEPT !.pc = "resolved",
                     !.msg = SyncMessage(DecodeAsyncConfig(wire.enc, NoList))]
  /\ UNCHANGED <<msgIn, wire, decoded>>
  /\ UNCHANGED <<authVars, schemaVars, buildVars, syncVars, upgradeVars>>

\* the scheduler maps the next entry; a throwing Commit.fromJS rejects
DecodeAsyncItem ==
  /\ adec.pc = "map"
  /\ ~MapDone(wire.enc.c.v, adec.i)
  /\ adec' = IF wire.enc.c.v[adec.i].ok
             THEN [adec EXCEPT !.values = Append(@, fromJS(wire.enc.c.v[adec.i])),
                               !.i = @ + 1]
             ELSE [adec EXCEPT !.pc = "rejected"]
  /\ UNCHANGED <<msgIn, wire, decoded>>
  /\ UNCHANGED <<authVars, schemaVars, buildVars, syncVars, upgradeVars>>

\* the map has resolved: decodeAsync constructs the message
DecodeAsyncReturn ==
  /\ adec.pc = "map"
  /\ MapDone(wire.enc.c.v, adec.i)
  /\ adec' = [adec EXCEPT !.pc = "resolved",
                !.msg = SyncMessage(DecodeAsyncConfig(wire.enc,
                                                      SomeList(adec.values)))]
  /\ UNCHANGED <<msgIn, wire, decoded>>
  /\ UNCHANGED <<authVars, schemaVars, buildVars, syncVars, upgradeVars>>

\* the decode is cancelled while it is suspended
DecodeAsyncCancel ==
  /\ adec.pc = "map"
  /\ adec' = [adec EXCEPT !.pc = "cancelled"]
  /\ UNCHANGED <<msgIn, wire, decoded>>
  /\ UNCHANGED <<authVars, schemaVars, buildVars, syncVars, upgradeVars>>

\* the build is cancelled while it is suspended
BuildAsyncCancel ==
  /\ async.pc = "scan"
  /\ async' = [async EXCEPT !.pc = "cancelled"]
  /\ UNCHANGED <<buildIn, buildOut>>
  /\ UNCHANGED <<authVars, schemaVars, syncVars, upgradeVars, wireVars>>

NextRoundTrip ==
  \/ Serialize
  \/ Deserialize

NextDecode ==
  \/ Deserialize
  \/ DecodeAsyncStart
  \/ DecodeAsyncItem
  \/ DecodeAsyncReturn

NextAsync ==
  \/ DoBuildAsyncStart
  \/ DoBuildAsyncItem
  \/ DoBuildAsyncScanned
  \/ DoBuildAsyncReturn
  \/ BuildAsyncCancel
  \/ DecodeAsyncStart
  \/ DecodeAsyncItem
  \/ DecodeAsyncReturn
  \/ DecodeAsyncCancel

(***************************************************************************)
(* Specifications: one per part, the other parts left as constructed.      *)
(***************************************************************************)
IdleSync ==
  /\ coll = [p \in Peers |-> {}]
  /\ peerFilter = [p \in Peers |-> [filter |-> NoFilter, size |-> 0]]
  /\ net = [to |-> 0, next |-> 1, msg |-> NoMessage]

Init ==
  InitAuth /\ InitSchema /\ InitBuild /\ IdleSync /\ InitUpgrade /\ IdleWire

\* the exchange starts from any two collections
InitExchange ==
  InitAuth /\ InitSchema /\ InitBuild /\ InitSync /\ InitUpgrade /\ IdleWire

\* a call of build or buildAsync with any arguments
InitCall ==
  /\ InitAuth /\ InitSchema /\ IdleSync /\ InitUpgrade /\ IdleWire
  /\ buildIn \in AllBuildArgs
  /\ buildOut = [kind |-> "none", msg |-> NoMessage]
  /\ async = AsyncIdle

SpecAuth == Init /\ [][NextAuth]_vars

SpecSchema == Init /\ [][NextSchema]_vars

SpecCodec == Init /\ [][NextCodec]_vars

SpecUpgrade == Init /\ [][NextUpgrade]_vars

SpecRegistry == Init /\ [][NextRegistry]_vars

\* a caller holds a message to serialize
InitMessage ==
  /\ InitAuth /\ InitSchema /\ InitBuild /\ IdleSync /\ InitUpgrade
  /\ msgIn \in Messages
  /\ wire = NoWire
  /\ decoded = NoDecoded
  /\ adec = DecodeIdle

\* an encoded message has arrived from a peer
InitEncoded ==
  /\ InitAuth /\ InitSchema /\ InitBuild /\ IdleSync /\ InitUpgrade
  /\ msgIn = NoSyncMessage
  /\ wire \in {[from |-> "peer", enc |-> e] : e \in EncodedMessages}
  /\ decoded = NoDecoded
  /\ adec = DecodeIdle

\* an asynchronous call is about to be made: buildAsync or decodeAsync
InitAsync ==
  /\ InitAuth /\ InitSchema /\ IdleSync /\ InitUpgrade
  /\ buildOut = [kind |-> "none", msg |-> NoMessage]
  /\ async = AsyncIdle
  /\ msgIn = NoSyncMessage
  /\ decoded = NoDecoded
  /\ adec = DecodeIdle
  /\ \/ buildIn \in AllBuildArgs /\ wire = NoWire
     \/ /\ buildIn = NoBuildArgs
        /\ wire \in {[from |-> "peer", enc |-> e] : e \in EncodedMessages}

SpecRoundTrip == InitMessage /\ [][NextRoundTrip]_vars

SpecDecode == InitEncoded /\ [][NextDecode]_vars

SpecAsync == InitAsync /\ [][NextAsync]_vars

SpecBuild == InitCall /\ [][NextBuild]_vars

SpecSync == InitExchange /\ [][NextSync]_vars

\* every message is processed, and no id is a false positive in every cycle
SyncFairness ==
  /\ WF_vars(DoReceive)
  /\ \A p \in Peers : \A id \in CommitIds : SF_vars(SendWithout(p, id))

SpecSyncFair == SpecSync /\ SyncFairness

(***************************************************************************)
(* Claims.                                                                 *)
(***************************************************************************)

\* C1: two peers that keep exchanging messages built by SyncMessage.build
\* eventually hold equal collections, from any two initial collections,
\* provided no id is a false positive of the filters in every cycle.
C1_Converges == <>[](coll[1] = coll[2])

\* the two peers started apart and the exchange has made them equal
C1_Witness ==
  /\ coll[1] = coll[2]
  /\ coll[1] = CommitIds
  /\ peerFilter[1].filter.present
  /\ peerFilter[2].filter.present
  /\ peerFilter[1].filter.f.added # CommitIds
  /\ net.to = 0

\* C2: the filter of every message build or buildAsync returns answers true
\* for every id the local iterator yielded, with or without a peer filter
\* and whatever includeMissing is.
C2_FilterHoldsLocalIds ==
  buildOut.kind # "none" =>
    \A id \in Range(buildIn.values) : FilterHas(buildOut.msg.filter, id)

\* C3: with a peer filter and includeMissing, the values of the message
\* build returns are the iterator's commits the peer filter does not hold,
\* in iterator order and each once; otherwise the values are empty.
C3_ValuesAreMissing ==
  buildOut.kind = "build" =>
    buildOut.msg.values =
      IF buildIn.peer.present /\ buildIn.includeMissing
      THEN SelectSeq(buildIn.values,
                     LAMBDA id : ~FilterHas(buildIn.peer.f, id))
      ELSE <<>>

\* build returned two of three commits, the peer filter holding the third
C3_Witness ==
  /\ buildOut.kind = "build"
  /\ buildIn.peer.present
  /\ buildIn.includeMissing
  /\ Len(buildIn.values) = 3
  /\ buildIn.values[1] > buildIn.values[2]
  /\ buildOut.msg.values = <<buildIn.values[1], buildIn.values[3]>>

\* C4: the size of every message build or buildAsync returns is the number
\* of pairs the local iterator yielded, whatever localSize was passed and
\* with or without a peer filter.
C4_SizeIsCount ==
  buildOut.kind # "none" => buildOut.msg.size = Len(buildIn.values)

\* the paths of the registered user rules
RegisteredPaths == {authRules[i].rulePath : i \in 1 .. Len(authRules)}

\* no two user rules have the same path
AtMostOneRulePerPath ==
  \A i, j \in 1 .. Len(authRules) :
    authRules[i].rulePath = authRules[j].rulePath => i = j

\* C5: registerAuthRule with a path that is already registered fails and
\* leaves the user rules unchanged, so the user rules hold at most one rule
\* per path.
C5_DuplicateFails ==
  /\ [][(/\ authRes'.op = "register"
         /\ RegisteredPath(authRes'.input) \in RegisteredPaths)
        => (authRes'.threw /\ authRules' = authRules)]_vars
  /\ []AtMostOneRulePerPath

kSysRepos ==
  { Path(TRUE, <<"sys", "users">>), Path(TRUE, <<"sys", "sessions">>),
    Path(TRUE, <<"sys", "stats">>) }

\* the repository of the last lookup
LookupRepo == itemPathGetRepoId(AsPath(authRes.input))

UnderSys(repo) == Len(repo.parts) = 2 /\ repo.parts[1] = "sys"

\* C6: for every repository under /sys/ other than /sys/users,
\* /sys/sessions and /sys/stats, authRuleForRepo returns the built-in
\* catch-all rule, whatever user rules are registered.
C6_SysCatchAll ==
  (/\ authRes.op = "lookup"
   /\ UnderSys(LookupRepo)
   /\ LookupRepo \notin kSysRepos)
  => authRes.rule = "sysCatchAll"

\* C7: for /sys/users, /sys/sessions and /sys/stats authRuleForRepo returns
\* the built-in rule of that repository, whatever user rules are registered.
C7_BuiltinFirst ==
  authRes.op = "lookup" =>
    /\ LookupRepo = Path(TRUE, <<"sys", "users">>) => authRes.rule = "sysUsers"
    /\ LookupRepo = Path(TRUE, <<"sys", "sessions">>)
         => authRes.rule = "sysSessions"
    /\ LookupRepo = Path(TRUE, <<"sys", "stats">>) => authRes.rule = "sysStats"

\* a user rule is registered on /sys/users and the lookup of an item of
\* /sys/users returned the built-in rule
C7_Witness ==
  /\ authRes.op = "lookup"
  /\ authRes.input = StrPath(Path(TRUE, <<"sys", "users", "bob">>))
  /\ authRes.rule = "sysUsers"
  /\ StrPath(Path(TRUE, <<"sys", "users">>)) \in RegisteredPaths

\* C8: the built-in rules decide as the table says: /sys/users is read by
\* anyone and written by the item's owner or root, /sys/sessions is read by
\* anyone and written by root, /sys/stats is read and written by root only.
C8_BuiltinTable ==
  LET d == authDecision
  IN  d.rule # NoRule =>
        /\ d.repo = StrPath(Path(TRUE, <<"sys", "users">>)) =>
             (d.allow <=>
                (d.op = "read" \/ d.owner = d.itemKey \/ d.owner = "root"))
        /\ d.repo = StrPath(Path(TRUE, <<"sys", "sessions">>)) =>
             (d.allow <=> (d.op = "read" \/ d.owner = "root"))
        /\ d.repo = StrPath(Path(TRUE, <<"sys", "stats">>)) =>
             (d.allow <=> d.owner = "root")

\* alice was allowed to write her own item of /sys/users
C8_Witness ==
  /\ authDecision.repo = StrPath(Path(TRUE, <<"sys", "users">>))
  /\ authDecision.owner = "alice"
  /\ authDecision.itemKey = "alice"
  /\ authDecision.op = "write"
  /\ authDecision.allow

\* a built-in rule matches the path: its string is the repository id, or
\* the catch-all RegExp matches the path
BuiltinMatches(inputPath) ==
  \/ itemPathGetRepoId(inputPath) \in kSysRepos
  \/ RegExpTest(kSysRegExpId, inputPath, 0).ok

\* a registered user rule matches the path
UserRuleMatches(inputPath) ==
  \E i \in 1 .. Len(authRules) :
    LET rp == authRules[i].rulePath
    IN  IF rp.kind = "str"
        THEN normalizePath(AsPath(rp)) = itemPathGetRepoId(inputPath)
        ELSE RegExpTest(rp.re, inputPath, 0).ok

\* C9: authRuleForRepo returns no rule exactly when neither a built-in rule
\* nor a registered user rule matches the path.
C9_NoRuleIffNoMatch ==
  authRes.op = "lookup" =>
    (authRes.rule = NoRule <=>
       (/\ ~BuiltinMatches(AsPath(authRes.input))
        /\ ~UserRuleMatches(AsPath(authRes.input))))

\* the schemas registered under ns with the version v
RegisteredAs(ns, v) ==
  {schemas[ns][i] : i \in {j \in 1 .. Len(schemas[ns]) : schemas[ns][j].version = v}}

\* C10: get(ns, v) with v passed, 0 included, returns the schema registered
\* under (ns, v) and none when there is no such schema; get(ns) returns the
\* latest version of ns.
C10_GetExactVersion ==
  schemaRes.op = "get" =>
    IF schemaRes.ver.given
    THEN IF RegisteredAs(schemaRes.ns, schemaRes.ver.v) = {}
         THEN schemaRes.result = NoSchema
         ELSE schemaRes.result \in RegisteredAs(schemaRes.ns, schemaRes.ver.v)
    ELSE IF schemas[schemaRes.ns] = <<>>
         THEN schemaRes.result = NoSchema
         ELSE /\ schemaRes.result \in Range(schemas[schemaRes.ns])
              /\ \A s \in Range(schemas[schemaRes.ns]) :
                   s.version <= schemaRes.result.version

\* every namespace's sequence is strictly descending by version
StrictlyDescending ==
  \A ns \in Namespaces :
    \A i \in 1 .. Len(schemas[ns]) - 1 :
      schemas[ns][i].version > schemas[ns][i + 1].version

\* C11: after any registerSchema calls every namespace's sequence is
\* strictly descending by version, get(ns) without a version returns the
\* entry of greatest version, and registering a (ns, version) that is
\* present leaves the registry unchanged.
C11_RegistrySorted ==
  /\ []StrictlyDescending
  /\ [](schemaRes.op = "get" /\ ~schemaRes.ver.given
          /\ schemas[schemaRes.ns] # <<>>
        => /\ schemaRes.result \in Range(schemas[schemaRes.ns])
           /\ \A s \in Range(schemas[schemaRes.ns]) :
                s.version <= schemaRes.result.version)
  /\ [][(/\ schemaRes'.op = "register"
         /\ RegisteredAs(schemaRes'.ns, schemaRes'.ver.v) # {})
        => schemas' = schemas]_vars

\* version 1 of Note was registered after versions 0 and 2
C11_Witness ==
  /\ schemaRes.op = "register"
  /\ schemaRes.ns = "Note"
  /\ schemaRes.ver.v = 1
  /\ Len(schemas["Note"]) = 3
  /\ schemas["Note"][2].version = 1

\* C12: decode(encode(s)) = s for every registered schema s and for the
\* null schema.
C12_DecodeEncode ==
  schemaRes.op = "decode" =>
    IF schemaRes.ns = NullNs
    THEN schemaRes.result = kNullSchema
    ELSE schemaRes.result \in RegisteredAs(schemaRes.ns, schemaRes.ver.v)

\* the version an upgrade call aims at: the target's, or the latest of ns
UpgradeGoal ==
  IF upg.target.given THEN upg.target.schema.version
  ELSE schemas[upg.dataSchema.ns][1].version

\* the upgrade call walks a chain of a namespace, upwards or not at all
ChainCall ==
  /\ upg.op = "upgrade"
  /\ upg.dataSchema.ns # NullNs
  /\ upg.target.given => upg.target.schema.ns = upg.dataSchema.ns
  /\ ~upg.target.given => schemas[upg.dataSchema.ns] # <<>>
  /\ UpgradeGoal >= upg.dataSchema.version

\* the versions the call has to walk through
ChainVersions == (upg.dataSchema.version + 1) .. UpgradeGoal

\* the value the upgrade functions of versions v .. goal make of x
RECURSIVE Composed(_, _, _, _)
Composed(ns, x, v, goal) ==
  IF v > goal THEN x
  ELSE LET fn == (CHOOSE s \in RegisteredAs(ns, v) : TRUE).upgrade
           y == CASE fn = "inc" -> x + 1
                  [] fn = "dbl" -> 2 * x + (v - 1)
                  [] OTHER -> x
       IN  Composed(ns, y, v + 1, goal)

\* C13: when every version from dataSchema.version + 1 through the target
\* (or latest) version is registered, upgrade succeeds, returns the target
\* (or latest) schema and the data the upgrade functions make of the input
\* in ascending version order.
C13_UpgradeComposes ==
  (/\ ChainCall
   /\ \A v \in ChainVersions : RegisteredAs(upg.dataSchema.ns, v) # {})
  => /\ upg.out.defined
     /\ upg.out.schema.ns = upg.dataSchema.ns
     /\ upg.out.schema.version = UpgradeGoal
     /\ upg.out.heap[upg.out.ref] =
          Composed(upg.dataSchema.ns, upg.data0, upg.dataSchema.version + 1,
                   UpgradeGoal)

\* a version strictly between dataSchema.version and the goal is missing
ChainHasGap ==
  \E v \in ChainVersions : v < UpgradeGoal /\ RegisteredAs(upg.dataSchema.ns, v) = {}

C15_InputUntouched ==
  upg.op = "upgrade" => upg.out.heap[1] = upg.data0

\* upgrade returned none after an in-place upgrade function had run
C15_Witness ==
  /\ upg.op = "upgrade"
  /\ ~upg.out.defined
  /\ RegisteredAs(kChainNs, 2) = {}
  /\ Len(upg.out.heap) >= 2
  /\ upg.out.heap[2] # upg.data0
  /\ upg.out.heap[1] = upg.data0

\* the entries of an encoded commit array that decode, as commits in order
Decodable(commits) ==
  LET good == SelectSeq(commits, LAMBDA e : e.ok)
  IN  [i \in 1 .. Len(good) |-> good[i].id]

\* the number of entries that fail to decode
Failures(commits) == Cardinality({i \in 1 .. Len(commits) : ~commits[i].ok})

\* C16: deserialize of an encoded message with k failing entries among m
\* commits yields exactly the m - k decodable commits in their order, with
\* buildVersion, size, accessDenied and the filter as the message carries
\* them.
C16_SkipsUndecodable ==
  decoded.kind = "deserialize" =>
    LET commits == GetOr(wire.enc.c)
    IN  /\ decoded.msg.values = Decodable(commits)
        /\ Len(decoded.msg.values) = Len(commits) - Failures(commits)
        /\ decoded.msg.buildVersion = wire.enc.ver
        /\ decoded.msg.size = wire.enc.s
        /\ accessDenied(decoded.msg) = GetOr(wire.enc.ad)
        /\ \A id \in CommitIds :
             FilterHas(decoded.msg.filter, id) <=> id \in wire.enc.f.bits

\* a failing entry after a decodable one was skipped
C16_Witness ==
  /\ decoded.kind = "deserialize"
  /\ wire.enc.c.present
  /\ Len(wire.enc.c.v) = 2
  /\ wire.enc.c.v[1].ok /\ ~wire.enc.c.v[2].ok
  /\ decoded.msg.values = <<wire.enc.c.v[1].id>>

\* two messages are semantically equal
SameMessage(a, b) ==
  /\ a.buildVersion = b.buildVersion
  /\ a.size = b.size
  /\ a.values = b.values
  /\ accessDenied(a) = accessDenied(b)
  /\ \A id \in CommitIds : FilterHas(a.filter, id) <=> FilterHas(b.filter, id)

\* C17: for every encoded message decodeAsync produces the same message as
\* deserialize, failing commit entries and absent "c" or "ad" included.
C17_AsyncMatchesSync ==
  (decoded.kind = "deserialize" /\ adec.pc \in {"resolved", "rejected"}) =>
    /\ adec.pc = "resolved"
    /\ SameMessage(adec.msg, decoded.msg)

\* C18: deserialize(serialize(msg)) is semantically equal to msg: same
\* buildVersion, size, values, accessDenied list (absent reads back as
\* empty) and filter answers.
C18_RoundTrip ==
  decoded.kind = "deserialize" => SameMessage(decoded.msg, msgIn)

\* a message without a denial list, with values and ids in its filter, came
\* back from the round trip
C18_Witness ==
  /\ decoded.kind = "deserialize"
  /\ wire.from = "serialize"
  /\ ~msgIn.accessDenied.present
  /\ Len(msgIn.values) = 2
  /\ msgIn.filter.added # {}
  /\ decoded.msg.accessDenied.present

\* a message of buildAsync carries the results of the whole iterator
WholeBuild ==
  (buildOut.kind = "buildAsync" /\ ScanGuard(buildIn.peer, buildIn.includeMissing))
  => /\ buildOut.msg.size = Len(buildIn.values)
     /\ buildOut.msg.filter.added = Range(buildIn.values)
     /\ buildOut.msg.values =
          SelectSeq(buildIn.values, LAMBDA id : ~FilterHas(buildIn.peer.f, id))

\* a message of decodeAsync carries every entry of the commit array
WholeDecode ==
  adec.pc = "resolved" =>
    /\ Len(adec.msg.values) = Len(GetOr(wire.enc.c))
    /\ adec.msg.values = Decodable(GetOr(wire.enc.c))

\* C19: a buildAsync or decodeAsync that is cancelled or fails at a
\* suspension point emits no message, then or later; a message is
\* constructed only after the whole iterator or commit array was processed.
C19_NoPartialMessage ==
  /\ [](async.pc \in {"scan", "cancelled"} => buildOut.kind = "none")
  /\ [](adec.pc \in {"map", "cancelled", "rejected"} => adec.msg = NoSyncMessage)
  /\ [](WholeBuild /\ WholeDecode)
  /\ [][(async.pc = "cancelled" => async'.pc = "cancelled")
        /\ (adec.pc \in {"cancelled", "rejected"} => adec'.pc = adec.pc)]_vars

\* a decode was cancelled, or failed, after it had decoded a commit
C19_Witness ==
  /\ adec.pc \in {"cancelled", "rejected"}
  /\ Len(adec.values) >= 1
  /\ adec.msg = NoSyncMessage

\* the items of the iterator the scan has processed
ScannedPrefix == SubSeq(buildIn.values, 1, async.i - 1)

\* C20: at every suspension point of buildAsync the per-item step has run
\* as a whole for a prefix of the iterator: localSize is the number of ids
\* added to the local filter, and the missing values are exactly the
\* commits of the prefix the peer filter does not contain.
C20_ItemStepAtomic ==
  async.pc = "scan" =>
    /\ async.st.localSize = Len(ScannedPrefix)
    /\ async.st.filter.added = Range(ScannedPrefix)
    /\ async.st.localSize = Cardinality(async.st.filter.added)
    /\ async.st.missing =
         SelectSeq(ScannedPrefix, LAMBDA id : ~FilterHas(buildIn.peer.f, id))

\* the scan is suspended between two items, one value missing, one not
C20_Witness ==
  /\ async.pc = "scan"
  /\ async.i = 3
  /\ Len(buildIn.values) = 3
  /\ Len(async.st.missing) = 1

\* C21: in an exchange between two peers, no message carries in its values
\* a commit its receiver held when it built the filter the message was
\* built against, the reply to a first-contact message included.  While a
\* message is in flight its receiver's collection is the one it scanned for
\* that filter.
C21_NeverSendsHeld ==
  net.to # 0 => Range(net.msg.values) \cap coll[net.to] = {}

\* the user rule at index i matches the path
UserRuleMatchesAt(i, inputPath) ==
  LET rp == authRules[i].rulePath
  IN  IF rp.kind = "str"
      THEN normalizePath(AsPath(rp)) = itemPathGetRepoId(inputPath)
      ELSE RegExpTest(rp.re, inputPath, 0).ok

\* a lookup of a path outside /sys returns the earliest registered user
\* rule that matches it
EarliestMatchWins ==
  (authRes.op = "lookup" /\ ~UnderSys(LookupRepo)) =>
    \A i \in 1 .. Len(authRules) :
      (/\ UserRuleMatchesAt(i, AsPath(authRes.input))
       /\ \A j \in 1 .. i - 1 : ~UserRuleMatchesAt(j, AsPath(authRes.input)))
      => authRes.rule = authRules[i].rule

\* C22: registerAuthRule calls with pairwise distinct paths all succeed (a
\* call fails only on a path that is already registered), and afterwards
\* authRuleForRepo resolves a path outside /sys to the earliest registered
\* user rule that matches it.
C22_DistinctPathsRegister ==
  /\ (authRes.op = "register" /\ authRes.threw)
       => RegisteredPath(authRes.input) \in RegisteredPaths
  /\ EarliestMatchWins

\* C23: with a fixed list of registered rules, the rule authRuleForRepo
\* returns for a path is the one it returns when no call preceded it,
\* whatever calls did precede it and wherever they left the match position
\* of a global RegExp rule path.
C23_HistoryIndependent ==
  authRes.op = "lookup" =>
    authRes.rule =
      authRuleForRepo(authRules, AsPath(authRes.input),
                      [i \in RegExpIds |-> 0]).rule

\* a global RegExp rule matched a path of two components after an earlier
\* call had left its match position at 3
C23_Witness ==
  /\ authRes.op = "lookup"
  /\ authRes.rule \in UserRules
  /\ Len(authRes.input.parts) = 2
  /\ \E r \in UserRegExpIds :
       /\ RegExpOf(r).global
       /\ authRules[1].rulePath = RePath(r)
       /\ authHist[r] = 3

====
